---- MODULE Spec2Model ----
(***************************************************************************)
(* Integrations Leaderboard (src/app.py, src/config.py): the sheet-backed  *)
(* submission store, its queries, and the form / Delete handlers.          *)
(*                                                                         *)
(* Strings are sequences of character codes (32 = space, 46 = '.',         *)
(* 48..57 = '0'..'9', 65..90 = 'A'..'Z', 97..122 = 'a'..'z'), so that      *)
(* strip(), lower(), ordering and the sheet's round trip are computed.     *)
(* The sheet is the sequence of its data rows: sheet row number r (row 1   *)
(* is the header) is sheet[r - 1].                                         *)
(***************************************************************************)
EXTENDS Integers, Sequences, FiniteSets

VARIABLES sheet, df, pc, todo, target, used, clock

vars == <<sheet, df, pc, todo, target, used, clock>>

-----------------------------------------------------------------------------
(* Bounds of the model *)

MaxSubmissions == 2

-----------------------------------------------------------------------------
(* Strings *)

Range(s) == {s[i] : i \in 1..Len(s)}

Min(S) == CHOOSE x \in S : \A y \in S : x <= y

Max(S) == CHOOSE x \in S : \A y \in S : x >= y

IsSpace(c) == c \in {9, 10, 11, 12, 13, 32}

IsDigit(c) == c \in 48..57

\* str.strip(): leading and trailing whitespace removed
Strip(s) ==
  LET keep == {i \in 1..Len(s) : ~IsSpace(s[i])}
  IN  IF keep = {} THEN <<>> ELSE SubSeq(s, Min(keep), Max(keep))

\* str.lower()
Lower(s) == [i \in 1..Len(s) |-> IF s[i] \in 65..90 THEN s[i] + 32 ELSE s[i]]

\* Python's < on str: lexicographic by code point
StrLess(a, b) ==
  \E k \in 1..(Len(a) + 1) :
    /\ \A i \in 1..(k - 1) : i <= Len(b) /\ a[i] = b[i]
    /\ k <= Len(b)
    /\ (k > Len(a) \/ a[k] < b[k])

\* sorted(..., key=...) and sort_values: a stable sort; before[i][j] says that
\* the key of s[i] is strictly before the key of s[j]
StableSort(s, before) ==
  LET n == Len(s)
      rank(i) == Cardinality({j \in 1..n :
                    \/ before[j][i]
                    \/ (~before[i][j] /\ j < i)})
  IN  [k \in 1..n |-> s[CHOOSE i \in 1..n : rank(i) = k - 1]]

\* Series.unique(): the distinct values in order of first appearance
Unique(s) ==
  LET first == {i \in 1..Len(s) : \A j \in 1..(i - 1) : s[j] # s[i]}
      n == Cardinality(first)
      nth(k) == CHOOSE i \in first : Cardinality({j \in first : j < i}) = k - 1
  IN  [k \in 1..n |-> s[nth(k)]]

\* Series.str.contains(needle): a regular-expression search. Over the
\* characters of this model the only metacharacter is '.', which matches any
\* character.
Contains(hay, needle) ==
  \E off \in 0..(Len(hay) - Len(needle)) :
    \A i \in 1..Len(needle) : needle[i] = 46 \/ needle[i] = hay[off + i]

\* _normalize
normalize(s) == Strip(s)

-----------------------------------------------------------------------------
(* Catalog (src/config.py) *)

GitHub == <<71, 105, 116, 72, 117, 98>>

Datadog == <<68, 97, 116, 97, 100, 111, 103>>

Cursor == <<67, 117, 114, 115, 111, 114>>

OpenAI == <<79, 112, 101, 110, 65, 73>>

Clickhouse == <<67, 108, 105, 99, 107, 104, 111, 117, 115, 101>>

INTEGRATIONS == <<GitHub, Datadog, Cursor, OpenAI, Clickhouse>>

-----------------------------------------------------------------------------
(* The sheet and its round trip *)

Row(id, csm, company, integration, at) ==
  [submission_id |-> id, csm_name |-> csm, company_name |-> company,
   integration_name |-> integration, created_at |-> at]

\* worksheet.get_all_records() passes every cell through gspread's numericise
\* (int(value), then float(value), else the text as is), and load_df turns the
\* result back into text with astype(str). A cell that reads as a decimal
\* integer therefore comes back in canonical form: "007" comes back as "7".
\* Exact for texts without sign, '.', 'e', '_' and the words inf / nan, which
\* no input of this model contains.
Numericise(s) ==
  LET t == Strip(s)
      nz == {i \in 1..Len(t) : t[i] # 48}
  IN  IF t # <<>> /\ \A i \in 1..Len(t) : IsDigit(t[i])
      THEN IF nz = {} THEN <<48>> ELSE SubSeq(t, Min(nz), Len(t))
      ELSE s

\* created_at is an ISO timestamp at seconds resolution, modelled by the
\* second it names; it is no number to numericise ("2026-...T...+00:00").
load_df(values) ==
  [i \in 1..Len(values) |->
     Row(Numericise(values[i].submission_id), Numericise(values[i].csm_name),
         Numericise(values[i].company_name),
         Numericise(values[i].integration_name), values[i].created_at)]

submission_exists(d, csm_name, company_name) ==
  /\ d # <<>>
  /\ LET csm == Lower(normalize(csm_name))
         company == Lower(normalize(company_name))
     IN  \E i \in 1..Len(d) :
           /\ Lower(Strip(d[i].csm_name)) = csm
           /\ Lower(Strip(d[i].company_name)) = company

\* append_submission with the uuid4().hex and the datetime.now() it drew
append_submission(values, submission_id, created_at, csm_name, company_name, names) ==
  values \o [i \in 1..Len(names) |->
               Row(submission_id, normalize(csm_name), normalize(company_name),
                   names[i], created_at)]

\* delete_submission, lines 136-139: the sheet row numbers to delete, already
\* in the reversed order of line 141
rows_to_delete(values, submission_id) ==
  LET hit == {i \in 1..Len(values) : values[i].submission_id = submission_id}
      n == Cardinality(hit)
      nthLargest(k) == CHOOSE i \in hit : Cardinality({j \in hit : j > i}) = k - 1
  IN  [k \in 1..n |-> nthLargest(k) + 1]

\* worksheet.delete_rows(row_num): the rows below move up; a row number past
\* the data deletes an empty grid row
delete_rows(values, row_num) ==
  LET i == row_num - 1
  IN  IF i \in 1..Len(values)
      THEN SubSeq(values, 1, i - 1) \o SubSeq(values, i + 1, Len(values))
      ELSE values

RECURSIVE delete_all(_, _)
\* the loop of lines 141-142, run to its end
delete_all(values, row_nums) ==
  IF row_nums = <<>> THEN values
  ELSE delete_all(delete_rows(values, Head(row_nums)), Tail(row_nums))

-----------------------------------------------------------------------------
(* Queries over the loaded DataFrame *)

\* A filter that is None, "" or [] is falsy and not applied (lines 156-161);
\* <<>> stands for all three.
FilterRows(d, csm_filter, company_filter, integration_filter) ==
  LET keep(r) ==
        /\ csm_filter # <<>> =>
             Lower(Strip(r.csm_name)) = Lower(Strip(csm_filter))
        /\ company_filter # <<>> =>
             Contains(Lower(Strip(r.company_name)), Lower(Strip(company_filter)))
        /\ integration_filter # <<>> =>
             r.integration_name \in Range(integration_filter)
  IN  SelectSeq(d, keep)

\* lines 169-178: the integrations of one group of rows
GroupIntegrations(g) ==
  LET names == [i \in 1..Len(g) |-> Strip(g[i].integration_name)]
      nonEmpty(x) == x # <<>>
      uniq == Unique(SelectSeq(names, nonEmpty))
      before == [i \in 1..Len(uniq) |-> [j \in 1..Len(uniq) |->
                  StrLess(Lower(uniq[i]), Lower(uniq[j]))]]
  IN  StableSort(uniq, before)

get_submissions(d, csm_filter, company_filter, integration_filter) ==
  LET filt == FilterRows(d, csm_filter, company_filter, integration_filter)
      ids == Unique([i \in 1..Len(filt) |-> filt[i].submission_id])
      group(id) == LET same(r) == r.submission_id = id IN SelectSeq(filt, same)
      out == [k \in 1..Len(ids) |->
                LET g == group(ids[k])
                IN  [submission_id |-> ids[k],
                     csm_name |-> g[1].csm_name,
                     company_name |-> g[1].company_name,
                     integrations |-> GroupIntegrations(g),
                     created_at |-> g[1].created_at]]
      newer == [i \in 1..Len(out) |-> [j \in 1..Len(out) |->
                 out[i].created_at > out[j].created_at]]
  IN  StableSort(out, newer)

\* value_counts(sort=False): the counts in order of first appearance
get_counts_by_service_unsorted(d) ==
  LET col == [i \in 1..Len(d) |-> d[i].integration_name]
      names == Unique(col)
      count(x) == Cardinality({i \in 1..Len(col) : col[i] = x})
  IN  [k \in 1..Len(names) |-> <<names[k], count(names[k])>>]

\* value_counts(): one entry per distinct name, by count descending; equal
\* counts keep the order of first appearance
get_counts_by_service(d) ==
  LET col == [i \in 1..Len(d) |-> d[i].integration_name]
      names == Unique(col)
      count(x) == Cardinality({i \in 1..Len(col) : col[i] = x})
      counts == [k \in 1..Len(names) |-> <<names[k], count(names[k])>>]
      more == [i \in 1..Len(counts) |-> [j \in 1..Len(counts) |->
                counts[i][2] > counts[j][2]]]
  IN  StableSort(counts, more)

\* groupby("csm_name") groups by the exact text; sort_values compares the
\* csm_name column as plain text (by code point)
get_counts_by_csm(d) ==
  LET csms == Unique([i \in 1..Len(d) |-> d[i].csm_name])
      size(c) == Cardinality({i \in 1..Len(d) : d[i].csm_name = c})
      nunique(c) == Cardinality({d[i].company_name : i \in {j \in 1..Len(d) : d[j].csm_name = c}})
      merged == [k \in 1..Len(csms) |-> <<csms[k], nunique(csms[k]), size(csms[k])>>]
      less(x, y) ==
        \/ x[3] > y[3]
        \/ x[3] = y[3] /\ x[2] > y[2]
        \/ x[3] = y[3] /\ x[2] = y[2] /\ StrLess(x[1], y[1])
      before == [i \in 1..Len(merged) |-> [j \in 1..Len(merged) |->
                  less(merged[i], merged[j])]]
  IN  StableSort(merged, before)

-----------------------------------------------------------------------------
(* Inputs *)

Sessions == {1, 2}

\* st.text_input("CSM name"): " ", "a", " A", "B", "07"
CsmInputs == {<<32>>, <<97>>, <<32, 65>>, <<66>>, <<48, 55>>}

\* st.text_input("Company name"): "", "ab", "c"
CompanyInputs == {<<>>, <<97, 98>>, <<99>>}

\* st.multiselect(options=INTEGRATIONS): nothing, one or two selected
SelectedInputs == {<<>>, <<GitHub>>, <<Datadog, GitHub>>}

\* uuid4().hex, shortened to two hexadecimal digits: "a0", "07", "7a"
IdPool == {<<97, 48>>, <<48, 55>>, <<55, 97>>}

\* datetime.now(timezone.utc): the clock does not run backwards; every append
\* is stamped with a later second than the append before it
Now == {clock + 1}

-----------------------------------------------------------------------------
(* Handlers *)

\* lines 319-327: the three st.error branches
Rejected(d, csm_name, company_name, selected) ==
  \/ csm_name = <<>> \/ company_name = <<>>
  \/ selected = <<>>
  \/ submission_exists(d, csm_name, company_name)

\* the ids that have a Delete button on the page rendered from d (no filter set)
Shown(d) == {r.submission_id : r \in Range(get_submissions(d, <<>>, <<>>, <<>>))}

Init ==
  /\ sheet = <<>>
  /\ df = [s \in Sessions |-> <<>>]
  /\ pc = [s \in Sessions |-> "idle"]
  /\ todo = [s \in Sessions |-> <<>>]
  /\ target = [s \in Sessions |-> <<>>]
  /\ used = {}
  /\ clock = 0

\* One script run of a session that has the sheet to itself: line 288 loads
\* the sheet, the form handler validates and appends, st.rerun() loads again.
Submit(s, csm_name, company_name, selected) ==
  LET d == load_df(sheet)
  IN  /\ \A t \in Sessions : pc[t] = "idle"
      /\ IF Rejected(d, csm_name, company_name, selected)
         THEN /\ df' = [df EXCEPT ![s] = d]
              /\ UNCHANGED <<sheet, used, clock>>
         ELSE /\ Cardinality(used) < MaxSubmissions
              /\ \E id \in IdPool \ used : \E now \in Now :
                   /\ sheet' = append_submission(sheet, id, now, csm_name, company_name, selected)
                   /\ used' = used \cup {id}
                   /\ clock' = now
              /\ df' = [df EXCEPT ![s] = load_df(sheet')]
      /\ UNCHANGED <<pc, todo, target>>

\* One script run in which a Delete button is clicked: line 288 loads the
\* sheet, delete_submission runs to its end, st.rerun() loads again.
Delete(s, submission_id) ==
  /\ \A t \in Sessions : pc[t] = "idle"
  /\ submission_id \in Shown(load_df(sheet))
  /\ sheet' = delete_all(sheet, rows_to_delete(sheet, submission_id))
  /\ df' = [df EXCEPT ![s] = load_df(sheet')]
  /\ UNCHANGED <<pc, todo, target, used, clock>>

Next ==
  \/ \E csm_name \in CsmInputs, company_name \in CompanyInputs, selected \in SelectedInputs :
       Submit(1, csm_name, company_name, selected)
  \/ \E submission_id \in {Numericise(i) : i \in IdPool} : Delete(1, submission_id)

Spec == Init /\ [][Next]_vars

-----------------------------------------------------------------------------
(* Two sessions on one sheet: every call of the Sheets API is a step of its *)
(* own, and the calls of the two script runs interleave.                    *)

\* "a", " A"
ConcCsmInputs == {<<97>>, <<32, 65>>}

\* "ab"
ConcCompanyInputs == {<<97, 98>>}

ConcSelectedInputs == {<<GitHub>>, <<Datadog, GitHub>>}

\* line 288: a script run starts by loading the sheet
Render(s) ==
  /\ pc[s] = "idle"
  /\ df' = [df EXCEPT ![s] = load_df(sheet)]
  /\ pc' = [pc EXCEPT ![s] = "rendered"]
  /\ UNCHANGED <<sheet, todo, target, used, clock>>

\* the form handler with the check made on the sheet as it is at the append
SubmitFormOnSheet(s, csm_name, company_name, selected) ==
  /\ pc[s] = "rendered"
  /\ IF Rejected(load_df(sheet), csm_name, company_name, selected)
     THEN UNCHANGED <<sheet, used, clock>>
     ELSE /\ Cardinality(used) < MaxSubmissions
          /\ \E id \in IdPool \ used : \E now \in Now :
               /\ sheet' = append_submission(sheet, id, now, csm_name, company_name, selected)
               /\ used' = used \cup {id}
               /\ clock' = now
  /\ pc' = [pc EXCEPT ![s] = "idle"]
  /\ UNCHANGED <<df, todo, target>>

\* lines 318-332: the form handler of that run; the check reads the loaded df,
\* worksheet.append_rows writes the sheet, st.rerun() ends the run
SubmitForm(s, csm_name, company_name, selected) ==
  /\ pc[s] = "rendered"
  /\ IF Rejected(df[s], csm_name, company_name, selected)
     THEN UNCHANGED <<sheet, used, clock>>
     ELSE /\ Cardinality(used) < MaxSubmissions
          /\ \E id \in IdPool \ used : \E now \in Now :
               /\ sheet' = append_submission(sheet, id, now, csm_name, company_name, selected)
               /\ used' = used \cup {id}
               /\ clock' = now
  /\ pc' = [pc EXCEPT ![s] = "idle"]
  /\ UNCHANGED <<df, todo, target>>

\* lines 409-410 and 126-139: a Delete button of that run is clicked;
\* delete_submission reads the sheet once and computes the row numbers
DeleteClick(s, submission_id) ==
  /\ pc[s] = "rendered"
  /\ submission_id \in Shown(df[s])
  /\ LET rows == rows_to_delete(sheet, submission_id)
     IN  /\ todo' = [todo EXCEPT ![s] = rows]
         /\ pc' = [pc EXCEPT ![s] = IF rows = <<>> THEN "idle" ELSE "deleting"]
  /\ target' = [target EXCEPT ![s] = submission_id]
  /\ UNCHANGED <<sheet, df, used, clock>>

\* lines 141-142: one worksheet.delete_rows call; after the last, st.rerun()
DeleteRow(s) ==
  /\ pc[s] = "deleting"
  /\ sheet' = delete_rows(sheet, Head(todo[s]))
  /\ todo' = [todo EXCEPT ![s] = Tail(todo[s])]
  /\ pc' = [pc EXCEPT ![s] = IF Tail(todo[s]) = <<>> THEN "idle" ELSE "deleting"]
  /\ UNCHANGED <<df, target, used, clock>>

NextConc ==
  \E s \in Sessions :
    \/ Render(s)
    \/ \E csm_name \in ConcCsmInputs, company_name \in ConcCompanyInputs, selected \in ConcSelectedInputs :
         SubmitForm(s, csm_name, company_name, selected)
    \/ \E submission_id \in {Numericise(i) : i \in IdPool} : DeleteClick(s, submission_id)
    \/ DeleteRow(s)

SpecConc == Init /\ [][NextConc]_vars

-----------------------------------------------------------------------------
(* Vocabulary of the claims *)

\* str.upper()
Upper(s) == [i \in 1..Len(s) |-> IF s[i] \in 97..122 THEN s[i] - 32 ELSE s[i]]

\* the same text up to letter case and surrounding whitespace
Variants(s) == {s, Lower(s), Upper(s), <<32>> \o Lower(s), Upper(s) \o <<32>>, <<32>> \o s \o <<32>>}

\* a (csm_name, company_name) pair, trimmed and without case
PairKey(r) == <<Lower(Strip(r.csm_name)), Lower(Strip(r.company_name))>>

\* needle occurs in hay, character for character
IsSubstring(hay, needle) ==
  \E off \in 0..(Len(hay) - Len(needle)) : SubSeq(hay, off + 1, off + Len(needle)) = needle

\* the listing with no filter set
Listing(d) == get_submissions(d, <<>>, <<>>, <<>>)

\* "A"
CsmFilters == {<<>>, <<65>>}

\* "B"
CompanyFilters == {<<>>, <<66>>}

IntegrationFilters == {<<>>, <<GitHub>>, <<Datadog>>}

RECURSIVE SumCounts(_)
SumCounts(counts) == IF counts = <<>> THEN 0 ELSE Head(counts)[2] + SumCounts(Tail(counts))

-----------------------------------------------------------------------------
(* Claims *)

\* C1: in a single session the stored rows hold at most one submission
\* (submission_id) per (csm_name, company_name) pair, the pairs compared
\* trimmed and without case.
C1_OneSubmissionPerPair ==
  \A i, j \in 1..Len(sheet) :
    PairKey(sheet[i]) = PairKey(sheet[j]) => sheet[i].submission_id = sheet[j].submission_id

\* C2: a submit whose csm_name or company_name is empty or only whitespace,
\* whose selection is empty, or whose pair exists already, leaves the stored
\* rows unchanged; so every stored row has a non-empty csm_name and
\* company_name.
C2_InvalidSubmitRejected ==
  [][/\ \A csm_name \in CsmInputs, company_name \in CompanyInputs, selected \in SelectedInputs :
          ( /\ Submit(1, csm_name, company_name, selected)
            /\ \/ Strip(csm_name) = <<>> \/ Strip(company_name) = <<>>
               \/ selected = <<>>
               \/ submission_exists(load_df(sheet), csm_name, company_name) )
          => sheet' = sheet
      /\ \A i \in 1..Len(sheet') :
           Strip(sheet'[i].csm_name) # <<>> /\ Strip(sheet'[i].company_name) # <<>>
    ]_vars

\* C3: get_submissions returns exactly the submissions that satisfy every
\* filter that is set (csm equal without case, company containing the filter
\* text without case, at least one integration in integration_filter), each
\* with its full stored integration set.
C3_FilteredListingIsFullSubmissions ==
  \A cf \in CsmFilters, of \in CompanyFilters, nf \in IntegrationFilters :
    LET d == df[1]
        matches(r) ==
          /\ cf # <<>> => Lower(Strip(r.csm_name)) = Lower(Strip(cf))
          /\ of # <<>> => IsSubstring(Lower(r.company_name), Lower(of))
          /\ nf # <<>> => Range(r.integrations) \cap Range(nf) # {}
    IN  Range(get_submissions(d, cf, of, nf)) = {r \in Range(Listing(d)) : matches(r)}

\* C3, the company filter alone: a company_filter of "." selects the
\* submissions whose company_name contains a '.'.
C3_CompanyFilterIsSubstring ==
  LET d == df[1]
  IN  Range(get_submissions(d, <<>>, <<46>>, <<>>))
        = {r \in Range(Listing(d)) : IsSubstring(Lower(r.company_name), <<46>>)}

\* C4: after delete_submission(id) a freshly loaded listing holds no
\* submission with that id, and delete_submission(id) once more, or for an id
\* that is not stored, changes no row.
C4_DeletedIdIsGone ==
  \A id \in IdPool \cup {Numericise(i) : i \in IdPool} :
    LET after == delete_all(sheet, rows_to_delete(sheet, id))
    IN  /\ id \notin Shown(load_df(after))
        /\ delete_all(after, rows_to_delete(after, id)) = after
        /\ (\A i \in 1..Len(sheet) : sheet[i].submission_id # id) => after = sheet

\* C5: after a valid submit is appended and the sheet reloaded, the listing
\* holds exactly one submission with the trimmed csm_name and company_name and
\* the selected integrations, and its id is the id of no submission listed
\* before.
C5_AppendedSubmissionIsListed ==
  [][\A csm_name \in CsmInputs, company_name \in CompanyInputs, selected \in SelectedInputs :
       ( /\ Submit(1, csm_name, company_name, selected)
         /\ sheet' # sheet
         /\ Strip(csm_name) # <<>> /\ Strip(company_name) # <<>> /\ selected # <<>> )
       => LET same == {r \in Range(Listing(df'[1])) :
                         /\ r.csm_name = Strip(csm_name)
                         /\ r.company_name = Strip(company_name)
                         /\ Range(r.integrations) = Range(selected)}
          IN  /\ Cardinality(same) = 1
              /\ \A r \in same : r.submission_id \notin Shown(load_df(sheet))
    ]_vars

\* C6: right after an append of (csm, company) and a reload, submission_exists
\* is true for every csm' and company' equal to them up to letter case and
\* surrounding whitespace.
C6_ExistsAfterAppend ==
  [][\A csm_name \in CsmInputs, company_name \in CompanyInputs, selected \in SelectedInputs :
       (Submit(1, csm_name, company_name, selected) /\ sheet' # sheet)
       => \A c \in Variants(csm_name), k \in Variants(company_name) :
            submission_exists(df'[1], c, k)
    ]_vars

\* C7: get_counts_by_csm has one row (csm_name, distinct companies, total
\* integrations) for each CSM with a stored submission and no other row, by
\* total integrations descending, then distinct companies descending, then
\* csm_name ascending without case.
C7_LeaderboardOrder ==
  LET d == df[1]
      got == get_counts_by_csm(d)
      csms == {d[i].csm_name : i \in 1..Len(d)}
      rowsOf(c) == {i \in 1..Len(d) : d[i].csm_name = c}
      before(x, y) ==
        \/ x[3] > y[3]
        \/ x[3] = y[3] /\ x[2] > y[2]
        \/ x[3] = y[3] /\ x[2] = y[2] /\ StrLess(Lower(x[1]), Lower(y[1]))
  IN  /\ Len(got) = Cardinality(csms)
      /\ {got[k][1] : k \in 1..Len(got)} = csms
      /\ \A k \in 1..Len(got) :
           /\ got[k][2] = Cardinality({d[i].company_name : i \in rowsOf(got[k][1])})
           /\ got[k][3] = Cardinality(rowsOf(got[k][1]))
      /\ \A k, m \in 1..Len(got) : k < m => ~before(got[m], got[k])

\* C8: the counts of get_counts_by_service sum to the number of stored
\* (submission, integration) pairs, and no count is followed by a larger one.
C8_ServiceCounts ==
  LET got == get_counts_by_service(df[1])
      pairs == {<<sheet[i].submission_id, sheet[i].integration_name>> : i \in 1..Len(sheet)}
  IN  /\ SumCounts(got) = Cardinality(pairs)
      /\ \A k \in 1..(Len(got) - 1) : got[k][2] >= got[k + 1][2]

\* two submissions counted under GitHub and one under Datadog
C8_Witness == get_counts_by_service(df[1]) = <<<<GitHub, 2>>, <<Datadog, 1>>>>

\* C9: the duplicate check and the append are not atomic: a session's append
\* is admitted by submission_exists on the df that session loaded, whatever the
\* sheet holds by then; so two sessions that loaded before either appended
\* both append the same pair.
C9_CheckReadsLoadedSnapshot ==
  [][\A s \in Sessions :
       (pc[s] = "rendered" /\ pc'[s] = "idle" /\ Len(sheet') > Len(sheet))
       => ~submission_exists(df[s], sheet'[Len(sheet')].csm_name, sheet'[Len(sheet')].company_name)
    ]_vars

\* two stored submissions for one pair
C9_Witness ==
  \E i, j \in 1..Len(sheet) :
    /\ sheet[i].submission_id # sheet[j].submission_id
    /\ PairKey(sheet[i]) = PairKey(sheet[j])

\* C10: delete_submission(id) removes no row of another submission, also when
\* its delete_rows calls interleave with the other session's calls.
C10_DeleteRemovesOwnRowsOnly ==
  [][\A r \in Range(sheet) \ Range(sheet') :
       \E s \in Sessions :
         pc[s] = "deleting" /\ todo'[s] # todo[s] /\ r.submission_id = target[s]
    ]_vars

====
